---- MODULE Spec2Model ----
(***************************************************************************)
(* State-machine model of scripts/idb_export_to_json.mjs: the extraction   *)
(* orchestrator (main), the frame locator, the grid readiness waiter, the  *)
(* accessible table parser and the deduplicator.                           *)
(*                                                                         *)
(* Strings are sequences of one-character strings, so that trim, whitespace*)
(* collapsing and key concatenation are computed as the code computes them.*)
(* Time inside the readiness waiter is the value of Date.now() - start, in *)
(* milliseconds.                                                           *)
(***************************************************************************)
EXTENDS Integers, Sequences, FiniteSets, TLC

VARIABLES
    pc,         \* position of main: start, locate, loop, wait, parse, parsed,
                \* save, snapshot, log, done, fatal
    attempt,    \* the for-loop counter of main
    rawRows,    \* main's rawRows
    powerBI,    \* main's powerBI: the located frame, or Null
    err,        \* the error main's promise was rejected with, or "none"
    exitCode,   \* process exit status: -1 while running, 0 or 1 at the end
    sleeps,     \* log of the backoff sleeps of the retry loop (ms), in order
    outcomes,   \* log of the attempts made: "TIMED_OUT", "EMPTY" or "ROWS"
    locCalls,   \* number of getPowerBIFrame calls
    waitCalls,  \* number of waitForPowerBiGrid calls
    parseCalls, \* number of parseAccessibleTable calls
    returned,   \* log of the values parseAccessibleTable returned to main, in order
    calls,      \* log of main's calls of the waiter and the parser and of the
                \* waiter's results: <<"wait", k>>, <<"READY", k>>, <<"TIMED_OUT", k>>,
                \* <<"parse", k>>, k the attempt
    wpc,        \* position inside waitForPowerBiGrid: idle, test, poll, count, sleep, ret
    elapsed,    \* Date.now() - start inside waitForPowerBiGrid
    ready,      \* the waiter's return value: "none", "READY" (true), "TIMED_OUT" (false)
    widget,     \* environment: the grid-like selectors that currently match
    seen,       \* history: some selector matched at an instant with elapsed < timeoutMs
    ever,       \* history: some selector matched at an instant of this waiter call
    threw,      \* history: a count query threw during this waiter call
    pollAt,     \* history: elapsed at the start of the poll under way or of the poll
                \* that returned true, else -1
    lastPoll,   \* history: "none", "zero", "nonzero" or "throw" for the last poll
    tree,       \* the frame tree under powerBI as seen by this parser call
    frames,     \* parseAccessibleTable's frames array
    fi,         \* parseAccessibleTable's loop index i, 1-based
    visited,    \* history: the frames nudged and queried by this parser call, in order
    shots,      \* history: indices i of the screenshots attempted by this parser call
    aborts,     \* history: indices i of the candidates whose try block threw
    failed,     \* history: indices i of the candidates in which some operation failed
    yields,     \* history: the recs array of each candidate visited, in order
    ppc,        \* position inside parseAccessibleTable: idle, loop, ret
    presult,    \* parseAccessibleTable's return value (<<>> until it returns)
    primary,    \* number of writes of data/notices.json
    snapshot,   \* number of writes of data/notices-<today>.json
    okLogged,   \* the "OK: ..." line was printed
    notices,    \* main's notices: the records to be written
    primaryData,  \* the records last written to data/notices.json
    snapshotData, \* the records last written to data/notices-<today>.json
    arr,        \* deduplicator run: the input sequence
    out,        \* deduplicator run: dedupeByIdHash(arr)
    out2,       \* deduplicator run: dedupeByIdHash(out)
    dstep,      \* deduplicator run: number of calls made (0, 1, 2)
    fin,        \* run of one helper function: its arguments
    fres,       \* run of one helper function: its result (<<>> before the call)
    fstep       \* run of one helper function: number of calls made (0, 1)

mainVars   == <<pc, attempt, rawRows, powerBI, err, exitCode, sleeps, outcomes,
                locCalls, waitCalls, parseCalls, returned, calls>>
waiterVars == <<wpc, elapsed, ready, widget, seen, ever, threw, pollAt,
                lastPoll>>
parserVars == <<tree, frames, fi, visited, shots, aborts, failed, yields, ppc,
                presult>>
fileVars   == <<primary, snapshot, okLogged, notices, primaryData, snapshotData>>
dedupVars  == <<arr, out, out2, dstep>>
funVars    == <<fin, fres, fstep>>
pureVars   == <<dedupVars, funVars>>
vars       == <<mainVars, waiterVars, parserVars, fileVars, pureVars>>

Null == "null"
None == "none"
\* the null returned by getPowerBIFrame, in the shape of a frame reference
NullFrame == <<"null", 0>>

(***************************************************************************)
(* CONFIG                                                                  *)
(***************************************************************************)
GRID_WAIT_TIMEOUTMS == 30000
RETRIES == 3
\* the base of the backoff sleep, sleep(1500 * attempt)
BackoffBaseMs == 1500
\* rootFrame.waitForTimeout(500) between two polls
PollIntervalMs == 500

(***************************************************************************)
(* Strings                                                                 *)
(***************************************************************************)
\* the whitespace characters of the model's alphabet (\s of the code)
IsWs(c) == c = " "

RECURSIVE TrimLeft(_)
TrimLeft(s) == IF s # <<>> /\ IsWs(Head(s)) THEN TrimLeft(Tail(s)) ELSE s

RECURSIVE TrimRight(_)
TrimRight(s) ==
    IF s # <<>> /\ IsWs(s[Len(s)]) THEN TrimRight(SubSeq(s, 1, Len(s) - 1)) ELSE s

\* String.prototype.trim
Trim(s) == TrimRight(TrimLeft(s))

\* s.replace(/\s+/g, " ")
RECURSIVE CollapseWs(_)
CollapseWs(s) ==
    IF s = <<>> THEN <<>>
    ELSE IF IsWs(Head(s))
         THEN <<" ">> \o CollapseWs(TrimLeft(s))
         ELSE <<Head(s)>> \o CollapseWs(Tail(s))

(***************************************************************************)
(* DEDUPE                                                                  *)
(***************************************************************************)
Range(f) == {f[i] : i \in DOMAIN f}

\* faulty variant: the hash is left out of the key
DedupKey_IdOnly(n) == n.id

\* the Map key of dedupeByIdHash: the template string `${n.id}:${n.hash}`
DedupKey(n) == n.id \o <<":">> \o n.hash

\* the for-loop of dedupeByIdHash; the Map m is its keys and its values in
\* insertion order (mk, mv): m.set only when !m.has(k)
RECURSIVE DedupeLoop(_, _, _)
DedupeLoop(a, mk, mv) ==
    IF a = <<>> THEN mv
    ELSE LET n == Head(a)
             k == DedupKey(n)
         IN IF k \in Range(mk)
            THEN DedupeLoop(Tail(a), mk, mv)
            ELSE DedupeLoop(Tail(a), Append(mk, k), Append(mv, n))

\* dedupeByIdHash(arr): [...m.values()]
dedupeByIdHash(a) == DedupeLoop(a, <<>>, <<>>)

(***************************************************************************)
(* POWER BI HELPERS                                                        *)
(***************************************************************************)
\* A page as getPowerBIFrame sees it: handle is what page.$(IFRAME_CSS) does
\* ("found", "none" or "throws"), content tells whether handle.contentFrame()
\* resolves to a frame, frames[i] tells whether page.frames()[i].url()
\* includes "app.powerbi.com".
Pages ==
    [handle : {"found", "none", "throws"}, content : BOOLEAN,
     frames : {<<>>, <<FALSE>>, <<FALSE, TRUE, TRUE>>}]

\* faulty variant: page.$(IFRAME_CSS) without .catch(() => null)
getPowerBIFrame_NoCatch(page) ==
    IF page.handle = "throws" THEN <<"throw", 0>>
    ELSE IF page.handle = "found" /\ page.content THEN <<"content", 0>>
    ELSE IF \E i \in DOMAIN page.frames : page.frames[i]
         THEN <<"frame", CHOOSE i \in DOMAIN page.frames :
                            page.frames[i] /\ \A j \in 1..(i - 1) : ~page.frames[j]>>
         ELSE NullFrame

\* getPowerBIFrame(page): the content frame of the iframe element, else the
\* first attached frame whose URL matches, else null
getPowerBIFrame(page) ==
    LET handle == IF page.handle = "found" THEN "handle" ELSE Null
        hits   == {i \in DOMAIN page.frames : page.frames[i]}
    IN IF handle # Null /\ page.content THEN <<"content", 0>>
       ELSE IF hits # {}
            THEN <<"frame", CHOOSE i \in hits : \A j \in hits : i <= j>>
            ELSE NullFrame

\* The selectors polled by waitForPowerBiGrid, in the order they are counted
Selectors == <<"grid", "table", "label">>

\* environment: the sets of selectors that can match at some instant
Widgets == {{}, {"grid"}, {"table", "label"}}

\* rootFrame.locator(sel).count() against the current widget
Count(w, sel) == IF sel \in w THEN 1 ELSE 0

\* how long one poll (three count queries) can take, in ms
PollDurations == {250, 500}

\* faulty variant: no catch around the count queries
PollOutcome_NoCatch(w, thr) ==
    IF thr # 0 THEN "throw"
    ELSE IF Count(w, "grid") + Count(w, "table") + Count(w, "label") > 0
         THEN "ready"
         ELSE "again"

\* One pass of the try block of waitForPowerBiGrid: thr is the index of the
\* count query that throws (0: none).  "ready" when the sum is positive,
\* "again" when it is zero or when the exception is swallowed by catch {}
\* ("throw" would be an exception leaving the function: the code has none).
PollOutcome(w, thr) ==
    IF thr # 0 THEN "again"
    ELSE IF Count(w, Selectors[1]) + Count(w, Selectors[2]) + Count(w, Selectors[3]) > 0
         THEN "ready"
         ELSE "again"

\* faulty variant: gives up one polling interval before the timeout
WithinTimeout_Early(e, timeoutMs) == e + PollIntervalMs < timeoutMs

\* the loop condition of waitForPowerBiGrid
WithinTimeout(e, timeoutMs) == e < timeoutMs

(***************************************************************************)
(* PARSER                                                                  *)
(***************************************************************************)
\* A frame tree maps each frame (the path of child indices from the root) to
\* the number of its child frames.
TreeRootOnly == (<<>> :> 0)
TreeChain == (<<>> :> 1) @@ (<<1>> :> 1) @@ (<<1, 1>> :> 1) @@ (<<1, 1, 1>> :> 0)
TreeWide ==
    (<<>> :> 2) @@ (<<1>> :> 1) @@ (<<2>> :> 1) @@ (<<1, 1>> :> 1) @@ (<<2, 1>> :> 0)
    @@ (<<1, 1, 1>> :> 0)
Trees == {TreeRootOnly, TreeChain, TreeWide}

\* frame.childFrames()
childFrames(t, n) == [i \in 1..t[n] |-> n \o <<i>>]

\* Array.prototype.flatMap(f => f.childFrames())
RECURSIVE FlatMapChildFrames(_, _)
FlatMapChildFrames(t, fs) ==
    IF fs = <<>> THEN <<>>
    ELSE childFrames(t, Head(fs)) \o FlatMapChildFrames(t, Tail(fs))

\* faulty variant: depth-first, each child followed by its own children
RECURSIVE DepthFirstFrames(_, _)
DepthFirstFrames(t, fs) ==
    IF fs = <<>> THEN <<>>
    ELSE <<Head(fs)>> \o childFrames(t, Head(fs)) \o DepthFirstFrames(t, Tail(fs))

CandidateFrames_DepthFirst(t, root) ==
    <<root>> \o DepthFirstFrames(t, childFrames(t, root))

\* the frames array of parseAccessibleTable
CandidateFrames(t, root) ==
    <<root>> \o childFrames(t, root) \o FlatMapChildFrames(t, childFrames(t, root))

\* One operation on a surface that can fail: op names it, r and c the row and
\* the cell (or header) it is applied to (0 when there is none).
Op(op, r, c) == [op |-> op, r |-> r, c |-> c]

\* The failures injected into one candidate visit: none, or one operation.
FaultSets ==
    {{}} \cup
    {{Op("nudge", 0, 0)}, {Op("hdrQuery", 0, 0)}, {Op("hdrText", 0, 1)},
     {Op("firstRowQuery", 0, 0)}, {Op("cellText", 1, 1)}, {Op("rowQuery", 0, 0)},
     {Op("cellQuery", 2, 0)}, {Op("cellText", 2, 1)}, {Op("shot", 0, 0)},
     {Op("cellQuery", 2, 0), Op("shot", 0, 0)}}

\* A surface: hdr are the innerTexts of the [role="columnheader"] elements,
\* rows[r] the innerTexts of the cell/gridcell elements of the r-th
\* [role="row"] element, in document order.
SurfEmpty == [hdr |-> <<>>, rows |-> <<>>]
SurfHeaderOnly == [hdr |-> <<<<"T">>>>, rows |-> <<<<>>>>]
SurfBlank == [hdr |-> <<<<"T">>>>, rows |-> <<<<>>, <<<<" ">>>>>>]
SurfOneRow ==
    [hdr |-> <<<<" ", "T", " ">>, <<>>>>,
     rows |-> <<<<>>, <<<<" ", "a", " ", " ", "b">>, <<"c">>>>>>]
SurfFallback ==
    [hdr |-> <<>>,
     rows |-> <<<<<<"T">>, <<"U">>>>, <<<<"a">>, <<>>>>, <<<<" ">>, <<>>>>,
                <<<<"b">>, <<"c">>>>>>]
Surfaces == {SurfEmpty, SurfHeaderOnly, SurfBlank, SurfOneRow, SurfFallback}

DigitChars == <<"0", "1", "2", "3", "4", "5", "6", "7", "8", "9">>

\* the template string `col_${idx}`, idx the 0-based index (below 10 here)
ColKey(idx) == <<"c", "o", "l", "_", DigitChars[idx + 1]>>

\* faulty variant: no try/catch in nudgeRender
nudgeRender_NoCatch(F) == IF Op("nudge", 0, 0) \in F THEN "throw" ELSE "ok"

\* nudgeRender(frame): "ok" however its scrolls and waits end, the whole body
\* being inside try { } catch { }
nudgeRender(F) == "ok"

\* (await el.innerText().catch(() => "")).trim()
InnerTextTrim(text, F, op) == IF op \in F THEN <<>> ELSE Trim(text)

\* the headers array: the columnheader texts, else the cells of the first row
Headers(surf, F) ==
    LET explicit == [j \in 1..Len(surf.hdr) |->
                        InnerTextTrim(surf.hdr[j], F, Op("hdrText", 0, j))]
    IN IF Len(explicit) # 0 THEN explicit
       ELSE IF surf.rows = <<>> THEN <<>>
       ELSE [c \in 1..Len(surf.rows[1]) |->
                InnerTextTrim(surf.rows[1][c], F, Op("cellText", 1, c))]

\* the statements of the try block that reject without a .catch of their own
TryThrows(surf, F) ==
    \/ Op("hdrQuery", 0, 0) \in F
    \/ Len(surf.hdr) = 0 /\ Op("firstRowQuery", 0, 0) \in F
    \/ Op("rowQuery", 0, 0) \in F

\* r.locator(cells).all().catch(() => [])
RowCells(surf, F, r) == IF Op("cellQuery", r, 0) \in F THEN <<>> ELSE surf.rows[r]

\* vals of row r: each innerText trimmed, whitespace runs collapsed
RowVals(surf, F, r) ==
    LET cells == RowCells(surf, F, r)
    IN [c \in 1..Len(cells) |->
           CollapseWs(InnerTextTrim(cells[c], F, Op("cellText", r, c)))]

\* headers.forEach((h, idx) => obj[h || `col_${idx}`] = vals[idx] ?? "")
RowObject(headers, vals) ==
    LET KeyAt(j) == IF headers[j] # <<>> THEN headers[j] ELSE ColKey(j - 1)
        keys     == {KeyAt(j) : j \in 1..Len(headers)}
        Last(k)  == CHOOSE j \in 1..Len(headers) :
                        /\ KeyAt(j) = k
                        /\ \A i \in 1..Len(headers) : KeyAt(i) = k => i <= j
    IN [k \in keys |-> IF Last(k) <= Len(vals) THEN vals[Last(k)] ELSE <<>>]

\* the loop over rowLocs.slice(1), from row r on: the recs array
RECURSIVE Recs(_, _, _, _)
Recs(surf, F, headers, r) ==
    IF r > Len(surf.rows) THEN <<>>
    ELSE LET vals == RowVals(surf, F, r)
             rest == Recs(surf, F, headers, r + 1)
         IN IF Len(vals) = 0 THEN rest
            ELSE IF \E c \in 1..Len(vals) : vals[c] # <<>>
                 THEN <<RowObject(headers, vals)>> \o rest
                 ELSE rest

\* faulty variant: the first row is read as a body row too
FirstBodyRow_NoSkip(rows) == 1

\* rowLocs.slice(1): the position in rowLocs of its first element
FirstBodyRow(rows) == 2

\* One iteration of the for loop of parseAccessibleTable on a surface:
\*   thrown  an exception leaves parseAccessibleTable
\*   aborted the try block threw and catch {} swallowed it
\*   recs    the rows returned from this candidate (<<>>: go on to the next)
\*   shot    page.screenshot was called for this candidate
VisitFrame(surf, F) ==
    LET nudge   == nudgeRender(F)
        aborted == TryThrows(surf, F)
        recs    == IF aborted THEN <<>>
                   ELSE Recs(surf, F, Headers(surf, F), FirstBodyRow(surf.rows))
    IN [thrown  |-> nudge # "ok",
        aborted |-> aborted,
        recs    |-> recs,
        shot    |-> ~aborted /\ recs = <<>>]

(***************************************************************************)
(* UTILS                                                                   *)
(***************************************************************************)
\* the null of the string-valued helpers, in the shape of a string
NullV == <<"null">>

UpperChars ==
    <<"A", "B", "C", "D", "E", "F", "G", "H", "I", "J", "K", "L", "M", "N",
      "O", "P", "Q", "R", "S", "T", "U", "V", "W", "X", "Y", "Z">>
LowerChars ==
    <<"a", "b", "c", "d", "e", "f", "g", "h", "i", "j", "k", "l", "m", "n",
      "o", "p", "q", "r", "s", "t", "u", "v", "w", "x", "y", "z">>

\* the image of character c when the letters of from are replaced by those of to
MapChar(c, from, to) ==
    IF \E i \in 1..Len(from) : from[i] = c
    THEN to[CHOOSE i \in 1..Len(from) : from[i] = c]
    ELSE c

\* String.prototype.toUpperCase and toLowerCase
toUpperCase(s) == [i \in 1..Len(s) |-> MapChar(s[i], LowerChars, UpperChars)]
toLowerCase(s) == [i \in 1..Len(s) |-> MapChar(s[i], UpperChars, LowerChars)]

IsDigit(c) == \E i \in 1..Len(DigitChars) : DigitChars[i] = c
DigitVal(c) == (CHOOSE i \in 1..Len(DigitChars) : DigitChars[i] = c) - 1
HasDigit(s) == \E i \in 1..Len(s) : IsDigit(s[i])

\* t.includes(w), the test of a regular expression that is a plain word
Includes(t, w) ==
    \E i \in 1..(Len(t) - Len(w) + 1) : SubSeq(t, i, i + Len(w) - 1) = w

\* s.replace(/c/g, d) for single characters in the set cs
ReplaceChars(s, cs, d) == [i \in 1..Len(s) |-> IF s[i] \in cs THEN d ELSE s[i]]

\* the characters of s that satisfy keep, in order
RECURSIVE KeepChars(_, _)
KeepChars(s, keep) ==
    IF s = <<>> THEN <<>>
    ELSE IF Head(s) \in keep THEN <<Head(s)>> \o KeepChars(Tail(s), keep)
         ELSE KeepChars(Tail(s), keep)

\* s.split(seps).filter(Boolean): the non-empty pieces of s between separators
RECURSIVE Pieces(_, _, _)
Pieces(s, seps, cur) ==
    IF s = <<>> THEN (IF cur = <<>> THEN <<>> ELSE <<cur>>)
    ELSE IF Head(s) \in seps
         THEN (IF cur = <<>> THEN <<>> ELSE <<cur>>) \o Pieces(Tail(s), seps, <<>>)
         ELSE Pieces(Tail(s), seps, Append(cur, Head(s)))

SplitNonEmpty(s, seps) == Pieces(s, seps, <<>>)

\* the value of a string of decimal digits
RECURSIVE DigitsValue(_)
DigitsValue(ds) ==
    IF ds = <<>> THEN 0
    ELSE 10 * DigitsValue(SubSeq(ds, 1, Len(ds) - 1)) + DigitVal(ds[Len(ds)])

\* the longest prefix of s made of digits
RECURSIVE DigitPrefix(_)
DigitPrefix(s) ==
    IF s # <<>> /\ IsDigit(Head(s)) THEN <<Head(s)>> \o DigitPrefix(Tail(s))
    ELSE <<>>

\* NaN, among numbers that are never negative
NaN == -1

\* parseInt(p, 10) of a piece with no whitespace and no "-": an optional "+",
\* then the leading digits; NaN when there is none
parseInt(p) ==
    LET q == IF p # <<>> /\ Head(p) = "+" THEN Tail(p) ELSE p
        ds == DigitPrefix(q)
    IN IF ds = <<>> THEN NaN ELSE DigitsValue(ds)

\* the decimal digits of n >= 0, at least w of them
RECURSIVE Digits(_, _)
Digits(n, w) ==
    IF n < 10 /\ w <= 1 THEN <<DigitChars[n + 1]>>
    ELSE Digits(n \div 10, w - 1) \o <<DigitChars[(n % 10) + 1]>>

\* days since 1970-01-01 of the proleptic Gregorian date y-m-d, 1 <= m <= 12,
\* d any integer (days past the end of the month run into the next ones)
DaysFromCivil(y, m, d) ==
    LET yy  == IF m <= 2 THEN y - 1 ELSE y
        era == yy \div 400
        yoe == yy - era * 400
        mp  == IF m > 2 THEN m - 3 ELSE m + 9
        doy == (153 * mp + 2) \div 5 + d - 1
        doe == yoe * 365 + yoe \div 4 - yoe \div 100 + doy
    IN era * 146097 + doe - 719468

\* the proleptic Gregorian date <<y, m, d>> of a day number
CivilFromDays(z0) ==
    LET z   == z0 + 719468
        era == z \div 146097
        doe == z - era * 146097
        yoe == (doe - doe \div 1460 + doe \div 36524 - doe \div 146096) \div 365
        doy == doe - (365 * yoe + yoe \div 4 - yoe \div 100)
        mp  == (5 * doy + 2) \div 153
        d   == doy - (153 * mp + 2) \div 5 + 1
        m   == IF mp < 10 THEN mp + 3 ELSE mp - 9
    IN <<IF m <= 2 THEN yoe + era * 400 + 1 ELSE yoe + era * 400, m, d>>

\* the largest day number of a Date: 8.64e15 ms
MaxDateDays == 100000000

\* the time value NaN of an invalid Date, outside the day numbers
InvalidDate == -(MaxDateDays + 1)

\* Date.UTC(y, m - 1, d) as a day number: a year 0..99 means 1900 + year,
\* months and days out of range carry over; NaN outside the range of Date
DateUTC(y, m, d) ==
    LET yf   == IF y >= 0 /\ y <= 99 THEN 1900 + y ELSE y
        ym   == yf + (m - 1) \div 12
        mn   == ((m - 1) % 12) + 1
        days == DaysFromCivil(ym, mn, 1) + d - 1
    IN IF days > MaxDateDays \/ days < -MaxDateDays THEN InvalidDate ELSE days

\* Number.isFinite(dt.getTime())
DateIsFinite(days) == days # InvalidDate

\* dt.toISOString().slice(0, 10): YYYY-MM-DD for the years 0..9999, the first
\* ten characters of +YYYYYY-MM-DD after them
ISODate(days) ==
    LET c == CivilFromDays(days)
        full == IF c[1] <= 9999 THEN Digits(c[1], 4)
                ELSE <<"+">> \o Digits(c[1], 6)
    IN SubSeq(full \o <<"-">> \o Digits(c[2], 2) \o <<"-">> \o Digits(c[3], 2),
              1, 10)

\* nums[0] > 1900 && nums[0] <= 2100
IsYearFirst(n) == n > 1900 /\ n <= 2100

\* the reading <<y, m, d>> of the first three numbers
DateOrder(nums) ==
    LET a == nums[1]
        b == nums[2]
        c == nums[3]
    IN IF IsYearFirst(a) THEN <<a, b, c>>
       ELSE IF a > 12 THEN <<c, b, a>>
       ELSE IF b > 12 THEN <<c, a, b>>
       ELSE <<c, b, a>>

\* new Date(s) of a string that toISO did not read as three numbers: a string
\* of four digits is an ISO year; a string with no digit in it (and, in this
\* alphabet, no month name) is an invalid date; what the engine's own parser
\* makes of any other string is engine, the result it is given here
DateParse(s, engine) ==
    IF Len(s) = 4 /\ \A i \in 1..4 : IsDigit(s[i])
    THEN ISODate(DaysFromCivil(DigitsValue(s), 1, 1))
    ELSE IF ~HasDigit(s) THEN NullV
    ELSE engine

\* toISO(raw), raw a string or null
toISO(raw, engine) ==
    IF raw = NullV \/ raw = <<>> THEN NullV
    ELSE LET s     == ReplaceChars(Trim(raw), {".", "-"}, "/")
             parts == SplitNonEmpty(s, {"/", " "})
             all   == [i \in 1..Len(parts) |-> parseInt(parts[i])]
             nums  == SelectSeq(all, LAMBDA n : n # NaN)
             ymd   == DateOrder(nums)
             dt    == DateUTC(ymd[1], ymd[2], ymd[3])
         IN IF Len(nums) >= 3 /\ DateIsFinite(dt) THEN ISODate(dt)
            ELSE DateParse(s, engine)

\* s without its leading zeros, but for the last one
RECURSIVE NoLead(_)
NoLead(s) == IF Len(s) > 1 /\ Head(s) = "0" THEN NoLead(Tail(s)) ELSE s

\* s without its trailing zeros
RECURSIVE NoTrail(_)
NoTrail(s) ==
    IF s # <<>> /\ s[Len(s)] = "0" THEN NoTrail(SubSeq(s, 1, Len(s) - 1)) ELSE s

\* the decimal text of the number that Number(t) gives for a string t of
\* digits and dots ("" is 0), or NaN's null when t is not a numeric literal
NumberText(t) ==
    LET dots == {i \in 1..Len(t) : t[i] = "."}
        dot  == IF dots = {} THEN Len(t) + 1 ELSE CHOOSE i \in dots : TRUE
        int  == SubSeq(t, 1, dot - 1)
        frac == SubSeq(t, dot + 1, Len(t))
        i0 == IF int = <<>> THEN <<"0">> ELSE NoLead(int)
        f0 == NoTrail(frac)
    IN IF Cardinality(dots) > 1 \/ t = <<".">> THEN NullV
       ELSE IF f0 = <<>> THEN i0 ELSE i0 \o <<".">> \o f0

\* toNum(v), v a string or null; a number is its decimal text
toNum(v) ==
    IF v = NullV THEN NullV
    ELSE NumberText(KeepChars(v, Range(DigitChars) \cup {"."}))

(***************************************************************************)
(* NORMALIZE                                                               *)
(***************************************************************************)
PAGE_URL ==
    <<"h", "t", "t", "p", "s", ":", "/", "/", "p", "r", "o", "j", "e", "c",
      "t", "p", "r", "o", "c", "u", "r", "e", "m", "e", "n", "t", ".", "i",
      "a", "d", "b", ".", "o", "r", "g", "/", "e", "n", "/", "p", "r", "o",
      "c", "u", "r", "e", "m", "e", "n", "t", "-", "n", "o", "t", "i", "c",
      "e", "s">>
Untitled == <<"(", "u", "n", "t", "i", "t", "l", "e", "d", ")">>
KeyNoticeTitle == <<"N", "o", "t", "i", "c", "e", " ", "T", "i", "t", "l", "e">>
KeyTitle == <<"T", "i", "t", "l", "e">>
KeyURL == <<"U", "R", "L">>
KeyLink == <<"L", "i", "n", "k">>
KeyNoticeURL == <<"N", "o", "t", "i", "c", "e", " ", "U", "R", "L">>
KeyCountry == <<"C", "o", "u", "n", "t", "r", "y">>
KeyPublicationDate ==
    <<"P", "u", "b", "l", "i", "c", "a", "t", "i", "o", "n", " ", "D", "a",
      "t", "e">>
KeyPosted == <<"P", "o", "s", "t", "e", "d">>
KeyDueDate == <<"D", "u", "e", " ", "D", "a", "t", "e">>
KeyDeadline == <<"D", "e", "a", "d", "l", "i", "n", "e">>
KeyClosingDate == <<"C", "l", "o", "s", "i", "n", "g", " ", "D", "a", "t", "e">>
KeyCurrency == <<"C", "u", "r", "r", "e", "n", "c", "y">>
KeyBudget == <<"B", "u", "d", "g", "e", "t">>
KeyEstimate == <<"E", "s", "t", "i", "m", "a", "t", "e">>
IdPrefix == <<"I", "D", "B", ":">>
HttpScheme == <<"h", "t", "t", "p", ":", "/", "/">>
HttpsScheme == <<"h", "t", "t", "p", "s", ":", "/", "/">>

\* a || b for a string or null a: b when a is null or ""
OrElse(a, b) == IF a = NullV \/ a = <<>> THEN b ELSE a

\* k in row && row[k] != null && String(row[k]).trim() !== ""
Usable(row, k) == k \in DOMAIN row /\ Trim(row[k]) # <<>>

\* headerPick(row, ...keys): for each alias the key as written, then in upper
\* case, then in lower case
RECURSIVE headerPick(_, _)
headerPick(row, keys) ==
    IF keys = <<>> THEN NullV
    ELSE LET k  == Head(keys)
             ku == toUpperCase(k)
             kl == toLowerCase(k)
         IN IF Usable(row, k) THEN row[k]
            ELSE IF Usable(row, ku) THEN row[ku]
            ELSE IF Usable(row, kl) THEN row[kl]
            ELSE headerPick(row, Tail(keys))

SectorRules ==
    <<
      [sector |-> <<"E", "n", "e", "r", "g", "y">>,
       words |-> {<<"e", "n", "e", "r", "g", "y">>, <<"p", "o", "w", "e", "r">>, <<"e", "l", "e", "c", "t", "r", "i", "c">>}],
      [sector |-> <<"T", "r", "a", "n", "s", "p", "o", "r", "t">>,
       words |-> {<<"r", "o", "a", "d">>, <<"r", "a", "i", "l">>, <<"t", "r", "a", "n", "s", "p", "o", "r", "t">>}],
      [sector |-> <<"W", "a", "t", "e", "r">>,
       words |-> {<<"w", "a", "t", "e", "r">>, <<"w", "a", "s", "t", "e">>}],
      [sector |-> <<"I", "C", "T">>,
       words |-> {<<"i", "c", "t">>, <<"d", "i", "g", "i", "t", "a", "l">>}]>>
SectorOther == <<"O", "t", "h", "e", "r">>

\* inferSectors(title): the first rule one of whose words occurs in the
\* lower-cased title, else ["Other"]
inferSectors(title) ==
    LET t == toLowerCase(title)
        Hit(i) == \E w \in SectorRules[i].words : Includes(t, w)
        hits == {i \in 1..Len(SectorRules) : Hit(i)}
    IN IF hits = {} THEN <<SectorOther>>
       ELSE <<SectorRules[CHOOSE i \in hits : \A j \in hits : i <= j].sector>>

\* the table M of mapCountryToISO2: <<name, ISO2 code>>
CountryTable ==
    <<
    <<<<"A", "r", "g", "e", "n", "t", "i", "n", "a">>,
        <<"A", "R">>>>,
    <<<<"B", "r", "a", "z", "i", "l">>,
        <<"B", "R">>>>,
    <<<<"C", "h", "i", "l", "e">>,
        <<"C", "L">>>>,
    <<<<"C", "o", "l", "o", "m", "b", "i", "a">>,
        <<"C", "O">>>>,
    <<<<"C", "o", "s", "t", "a", " ", "R", "i", "c", "a">>,
        <<"C", "R">>>>,
    <<<<"D", "o", "m", "i", "n", "i", "c", "a", "n", " ", "R", "e", "p", "u", "b", "l", "i", "c">>,
        <<"D", "O">>>>,
    <<<<"E", "c", "u", "a", "d", "o", "r">>,
        <<"E", "C">>>>,
    <<<<"E", "l", " ", "S", "a", "l", "v", "a", "d", "o", "r">>,
        <<"S", "V">>>>,
    <<<<"G", "u", "a", "t", "e", "m", "a", "l", "a">>,
        <<"G", "T">>>>,
    <<<<"H", "a", "i", "t", "i">>,
        <<"H", "T">>>>,
    <<<<"H", "o", "n", "d", "u", "r", "a", "s">>,
        <<"H", "N">>>>,
    <<<<"J", "a", "m", "a", "i", "c", "a">>,
        <<"J", "M">>>>,
    <<<<"M", "e", "x", "i", "c", "o">>,
        <<"M", "X">>>>,
    <<<<"N", "i", "c", "a", "r", "a", "g", "u", "a">>,
        <<"N", "I">>>>,
    <<<<"P", "a", "n", "a", "m", "a">>,
        <<"P", "A">>>>,
    <<<<"P", "a", "r", "a", "g", "u", "a", "y">>,
        <<"P", "Y">>>>,
    <<<<"P", "e", "r", "u">>,
        <<"P", "E">>>>,
    <<<<"U", "r", "u", "g", "u", "a", "y">>,
        <<"U", "Y">>>>,
    <<<<"T", "r", "i", "n", "i", "d", "a", "d", " ", "a", "n", "d", " ", "T", "o", "b", "a", "g", "o">>,
        <<"T", "T">>>>,
    <<<<"B", "a", "r", "b", "a", "d", "o", "s">>,
        <<"B", "B">>>>,
    <<<<"B", "e", "l", "i", "z", "e">>,
        <<"B", "Z">>>>,
    <<<<"B", "o", "l", "i", "v", "i", "a">>,
        <<"B", "O">>>>,
    <<<<"G", "u", "y", "a", "n", "a">>,
        <<"G", "Y">>>>,
    <<<<"S", "u", "r", "i", "n", "a", "m", "e">>,
        <<"S", "R">>>>,
    <<<<"B", "a", "h", "a", "m", "a", "s">>,
        <<"B", "S">>>>>>

\* mapCountryToISO2(name): M[String(name).trim()] ?? null
mapCountryToISO2(name) ==
    LET n == Trim(name)
        hits == {i \in 1..Len(CountryTable) : CountryTable[i][1] = n}
    IN IF hits = {} THEN NullV ELSE CountryTable[CHOOSE i \in hits : TRUE][2]

\* sha256(s): a hex digest, taken to be injective; the digest of s is written
\* with one mark per character of s, outside the alphabet of the texts
sha256(s) == <<"#">> \o [i \in 1..Len(s) |-> "#" \o s[i]]

\* sha256(s).slice(0, 16): the first 16 hex digits identify s as well
Sha16(s) == sha256(s)

\* the characters that replace(/[^a-z0-9\-_.]/gi, "") keeps
SlugChars ==
    Range(LowerChars) \cup Range(UpperChars) \cup Range(DigitChars)
        \cup {"-", "_", "."}

StartsWith(s, p) == Len(s) >= Len(p) /\ SubSeq(s, 1, Len(p)) = p

\* the first index from which s has a character of cs, else Len(s) + 1
FirstOf(s, cs) ==
    LET is == {i \in 1..Len(s) : s[i] \in cs}
    IN IF is = {} THEN Len(s) + 1 ELSE CHOOSE i \in is : \A j \in is : i <= j

\* new URL(url) of an http(s) url without dot segments or characters that need
\* escaping: parsed tells whether the constructor returns, pathname and query
\* are u.pathname and u.searchParams.toString()
ParseURL(url) ==
    LET scheme == IF StartsWith(url, HttpsScheme) THEN HttpsScheme
                  ELSE IF StartsWith(url, HttpScheme) THEN HttpScheme
                  ELSE <<>>
        rest   == SubSeq(url, Len(scheme) + 1, Len(url))
        noFrag == SubSeq(rest, 1, FirstOf(rest, {"#"}) - 1)
        hostEnd == FirstOf(noFrag, {"/", "?"})
        qAt    == FirstOf(noFrag, {"?"})
        path   == SubSeq(noFrag, hostEnd, qAt - 1)
    IN [parsed   |-> scheme # <<>> /\ hostEnd > 1,
        pathname |-> IF path = <<>> THEN <<"/">> ELSE path,
        query    |-> SubSeq(noFrag, qAt + 1, Len(noFrag))]

\* stableIdFromURLorTitle(url, title)
stableIdFromURLorTitle(url, title) ==
    IF url # NullV /\ url # <<>>
    THEN LET u    == ParseURL(url)
             segs == SplitNonEmpty(u.pathname, {"/"})
             last == IF segs # <<>> THEN segs[Len(segs)]
                     ELSE OrElse(u.query, url)
             slug == KeepChars(last, SlugChars)
         IN IF ~u.parsed THEN Sha16(url)
            ELSE OrElse(SubSeq(slug, 1, IF Len(slug) < 80 THEN Len(slug) ELSE 80),
                        Sha16(url))
    ELSE Sha16(OrElse(title, <<>>))

\* the array joined with "|"
RECURSIVE Join(_)
Join(parts) ==
    IF parts = <<>> THEN <<>>
    ELSE IF Len(parts) = 1 THEN parts[1]
    ELSE parts[1] \o <<"|">> \o Join(Tail(parts))

\* [obj.title, obj.countryName||"", obj.deadline||"", obj.url].join("|")
HashInput(obj) ==
    Join(<<obj.title, OrElse(obj.countryName, <<>>), OrElse(obj.deadline, <<>>),
           obj.url>>)

\* x.title && x.url
Retained(x) == x.title # NullV /\ x.title # <<>> /\ x.url # NullV /\ x.url # <<>>

\* the object that the map callback of normalizeRows makes of row r: the
\* fields that the id, the hash, the filter, the country, the sector, the
\* dates and the budget depend on
NormalizeRow(r, engine) ==
    LET title       == headerPick(r, <<KeyNoticeTitle, KeyTitle>>)
        url         == headerPick(r, <<KeyURL, KeyLink, KeyNoticeURL>>)
        countryName == headerPick(r, <<KeyCountry>>)
        pub         == headerPick(r, <<KeyPublicationDate, KeyPosted>>)
        due         == headerPick(r, <<KeyDueDate, KeyDeadline, KeyClosingDate>>)
        currency    == OrElse(headerPick(r, <<KeyCurrency>>), NullV)
        budget      == OrElse(headerPick(r, <<KeyBudget, KeyEstimate>>), NullV)
        titleSafe   == OrElse(Trim(OrElse(title, <<>>)), Untitled)
        obj == [id              |-> IdPrefix \o stableIdFromURLorTitle(url, titleSafe),
                title           |-> titleSafe,
                countryName     |-> OrElse(countryName, NullV),
                country         |-> OrElse(mapCountryToISO2(OrElse(countryName, <<>>)),
                                           NullV),
                sector          |-> inferSectors(titleSafe),
                currency        |-> currency,
                budgetEstimate  |-> toNum(budget),
                publicationDate |-> toISO(pub, engine),
                deadline        |-> toISO(due, engine),
                url             |-> OrElse(url, PAGE_URL),
                hash            |-> <<>>]
    IN [obj EXCEPT !.hash = sha256(HashInput(obj))]

\* normalizeRows(rows): rows.map(...).filter(x => x.title && x.url)
normalizeRows(rows, engine) ==
    SelectSeq([i \in 1..Len(rows) |-> NormalizeRow(rows[i], engine)], Retained)

(***************************************************************************)
(* MAIN                                                                    *)
(***************************************************************************)
WaiterIdle ==
    /\ wpc = "idle" /\ elapsed = 0 /\ ready = None /\ seen = FALSE /\ ever = FALSE
    /\ threw = FALSE /\ pollAt = -1 /\ lastPoll = None

ParserIdle ==
    /\ tree = TreeRootOnly /\ frames = <<>> /\ fi = 0 /\ visited = <<>>
    /\ shots = <<>> /\ aborts = {} /\ failed = {} /\ yields = <<>>
    /\ ppc = "idle" /\ presult = <<>>

InitMain ==
    /\ pc = "start" /\ attempt = 0 /\ rawRows = <<>> /\ powerBI = NullFrame
    /\ err = None /\ exitCode = -1 /\ sleeps = <<>> /\ outcomes = <<>>
    /\ locCalls = 0 /\ waitCalls = 0 /\ parseCalls = 0 /\ returned = <<>>
    /\ calls = <<>>
    /\ WaiterIdle /\ widget = {}
    /\ ParserIdle
    /\ primary = 0 /\ snapshot = 0 /\ okLogged = FALSE
    /\ notices = <<>> /\ primaryData = <<>> /\ snapshotData = <<>>

InitDedup == arr = <<>> /\ out = <<>> /\ out2 = <<>> /\ dstep = 0

InitFun == fin = <<>> /\ fres = <<>> /\ fstep = 0

Init == InitMain /\ InitDedup /\ InitFun

\* .catch(e => { console.error(e); process.exit(1); })
Fatal(e) == pc' = "fatal" /\ err' = e /\ exitCode' = 1

\* chromium.launch ... page.goto(PAGE_URL) and sleep(PAGE_LOAD_WAIT_MS); a
\* failing launch or navigation rejects main
Start ==
    /\ pc = "start"
    /\ \E ok \in BOOLEAN :
          IF ok THEN pc' = "locate" /\ UNCHANGED <<err, exitCode>>
          ELSE Fatal("navigation failed")
    /\ UNCHANGED <<attempt, rawRows, powerBI, sleeps, outcomes, locCalls, calls, waitCalls,
                   parseCalls, returned, waiterVars, parserVars, fileVars, pureVars>>

\* faulty variant: the null check is dropped
EmbedMissing_Never(f) == FALSE

\* if(!powerBI)
EmbedMissing(f) == f = NullFrame

\* faulty variant: gives up one attempt early
IsFinalAttempt_Early(a) == a >= RETRIES - 1

\* faulty variant: the last time-out is not an error
IsFinalAttempt_Never(a) == FALSE

\* if (attempt === RETRIES)
IsFinalAttempt(a) == a = RETRIES

\* const powerBI = await getPowerBIFrame(page); if(!powerBI) throw ...;
\* let rawRows = []; attempt = 1
Locate ==
    /\ pc = "locate"
    /\ \E page \in Pages :
          LET f == getPowerBIFrame(page)
          IN /\ powerBI' = f
             /\ locCalls' = locCalls + 1
             /\ IF EmbedMissing(f)
                THEN Fatal("Power BI iframe not found") /\ UNCHANGED attempt
                ELSE pc' = "loop" /\ attempt' = 1 /\ UNCHANGED <<err, exitCode>>
    /\ UNCHANGED <<rawRows, sleeps, outcomes, calls, waitCalls, parseCalls, returned,
                   waiterVars, parserVars, fileVars, pureVars>>

\* faulty variant: one attempt too many
LoopContinues_OneMore(a) == a <= RETRIES + 1

\* attempt <= RETRIES
LoopContinues(a) == a <= RETRIES

\* the loop test attempt <= RETRIES, then the call of waitForPowerBiGrid
\* (const start = Date.now()), or the end of the loop
LoopHead ==
    /\ pc = "loop"
    /\ IF LoopContinues(attempt)
       THEN /\ pc' = "wait"
            /\ waitCalls' = waitCalls + 1
            /\ calls' = Append(calls, <<"wait", attempt>>)
            /\ wpc' = "test" /\ elapsed' = 0 /\ ready' = None
            /\ seen' = (widget # {}) /\ ever' = (widget # {})
            /\ threw' = FALSE /\ pollAt' = -1 /\ lastPoll' = None
       ELSE /\ pc' = "save"
            /\ UNCHANGED <<waitCalls, calls, wpc, elapsed, ready, seen, ever, threw, pollAt,
                           lastPoll>>
    /\ UNCHANGED <<attempt, rawRows, powerBI, err, exitCode, sleeps, outcomes,
                   locCalls, parseCalls, returned, widget, parserVars, fileVars,
                   pureVars>>

\* the widget renders, re-renders or goes away while main waits for it
EnvChange ==
    /\ pc \in {"loop", "wait"}
    /\ wpc # "ret"
    /\ \E w \in Widgets \ {widget} :
          /\ widget' = w
          /\ seen' = IF pc = "wait"
                     THEN seen \/ (w # {} /\ elapsed < GRID_WAIT_TIMEOUTMS)
                     ELSE seen
          /\ ever' = IF pc = "wait" THEN ever \/ w # {} ELSE ever
    /\ UNCHANGED <<mainVars, wpc, elapsed, ready, threw, pollAt, lastPoll,
                   parserVars, fileVars, pureVars>>

\* while (Date.now() - start < timeoutMs) ... return false
WaiterTest ==
    /\ pc = "wait" /\ wpc = "test"
    /\ IF WithinTimeout(elapsed, GRID_WAIT_TIMEOUTMS)
       THEN wpc' = "poll" /\ UNCHANGED ready
       ELSE wpc' = "ret" /\ ready' = "TIMED_OUT"
    /\ UNCHANGED <<mainVars, elapsed, widget, seen, ever, threw, pollAt, lastPoll,
                   parserVars, fileVars, pureVars>>

\* the three awaited count queries are under way: time passes
WaiterPoll ==
    /\ pc = "wait" /\ wpc = "poll"
    /\ \E d \in PollDurations : elapsed' = elapsed + d
    /\ pollAt' = elapsed
    /\ wpc' = "count"
    /\ UNCHANGED <<mainVars, ready, widget, seen, ever, threw, lastPoll,
                   parserVars, fileVars, pureVars>>

\* try { count = ... ; if (count > 0) return true; } catch {}
WaiterCount ==
    /\ pc = "wait" /\ wpc = "count"
    /\ \E thr \in 0..Len(Selectors) :
          LET o == PollOutcome(widget, thr)
          IN /\ pollAt' = IF o = "ready" THEN pollAt ELSE -1
             /\ threw' = (threw \/ thr # 0)
             /\ lastPoll' = IF thr # 0 THEN "throw"
                            ELSE IF o = "ready" THEN "nonzero" ELSE "zero"
             /\ IF o = "throw"
                THEN /\ Fatal("count query failed")
                     /\ wpc' = "idle" /\ UNCHANGED ready
                ELSE /\ UNCHANGED <<pc, err, exitCode>>
                     /\ IF o = "ready"
                        THEN wpc' = "ret" /\ ready' = "READY"
                        ELSE wpc' = "sleep" /\ UNCHANGED ready
    /\ UNCHANGED <<attempt, rawRows, powerBI, sleeps, outcomes, locCalls, calls, waitCalls,
                   parseCalls, returned, elapsed, widget, seen, ever, parserVars,
                   fileVars, pureVars>>

\* await rootFrame.waitForTimeout(500)
WaiterSleep ==
    /\ pc = "wait" /\ wpc = "sleep"
    /\ elapsed' = elapsed + PollIntervalMs
    /\ wpc' = "test"
    /\ UNCHANGED <<mainVars, ready, widget, seen, ever, threw, pollAt, lastPoll,
                   parserVars, fileVars, pureVars>>

\* the waiter's locals once main has taken its return value
WaiterReset ==
    /\ wpc' = "idle" /\ elapsed' = 0 /\ ready' = None /\ seen' = FALSE
    /\ ever' = FALSE
    /\ threw' = FALSE /\ pollAt' = -1 /\ lastPoll' = None

\* faulty variant: a fixed delay instead of a linear backoff
Backoff_Fixed(k) == Append(sleeps, BackoffBaseMs)

\* sleep(1500 * attempt)
Backoff(k) == Append(sleeps, BackoffBaseMs * k)

\* faulty variant: the waiter's result is not looked at
NotReady_Never(r) == FALSE

\* if (!ready)
NotReady(r) == r = "TIMED_OUT"

\* if (!ready) { if (attempt === RETRIES) throw ...; await sleep(1500 * attempt);
\* continue; }  rawRows = await parseAccessibleTable(powerBI): the frames array
AfterWait ==
    /\ pc = "wait" /\ wpc = "ret"
    /\ WaiterReset
    /\ IF NotReady(ready)
       THEN /\ outcomes' = Append(outcomes, "TIMED_OUT")
            /\ calls' = Append(calls, <<ready, attempt>>)
            /\ IF IsFinalAttempt(attempt)
               THEN /\ Fatal("Power BI grid not visible after waiting")
                    /\ UNCHANGED <<attempt, sleeps>>
               ELSE /\ sleeps' = Backoff(attempt)
                    /\ attempt' = attempt + 1
                    /\ pc' = "loop"
                    /\ UNCHANGED <<err, exitCode>>
            /\ UNCHANGED <<parseCalls, parserVars>>
       ELSE /\ pc' = "parse"
            /\ parseCalls' = parseCalls + 1
            /\ calls' = calls \o <<<<ready, attempt>>, <<"parse", attempt>>>>
            /\ \E t \in Trees :
                  /\ tree' = t
                  /\ frames' = CandidateFrames(t, <<>>)
            /\ fi' = 1 /\ ppc' = "loop" /\ presult' = <<>>
            /\ visited' = <<>> /\ shots' = <<>> /\ aborts' = {} /\ failed' = {}
            /\ yields' = <<>>
            /\ UNCHANGED <<attempt, sleeps, outcomes, err, exitCode>>
    /\ UNCHANGED <<rawRows, powerBI, locCalls, waitCalls, returned, widget, fileVars,
                   pureVars>>

\* one iteration of for (let i = 0; i < frames.length; i++): nudgeRender(fr),
\* the try block, return recs or the screenshot
ParserVisit ==
    /\ pc = "parse" /\ ppc = "loop"
    /\ fi <= Len(frames)
    /\ \E surf \in Surfaces, F \in FaultSets :
          LET v == VisitFrame(surf, F)
          IN /\ visited' = Append(visited, frames[fi])
             /\ failed' = IF F # {} THEN failed \cup {fi} ELSE failed
             /\ IF v.thrown
                THEN /\ Fatal("parser failed")
                     /\ ppc' = "idle"
                     /\ UNCHANGED <<fi, presult, shots, aborts, yields>>
                ELSE /\ UNCHANGED <<pc, err, exitCode>>
                     /\ yields' = Append(yields, v.recs)
                     /\ aborts' = IF v.aborted THEN aborts \cup {fi} ELSE aborts
                     /\ shots' = IF v.shot THEN Append(shots, fi) ELSE shots
                     /\ IF v.recs # <<>>
                        THEN presult' = v.recs /\ ppc' = "ret" /\ UNCHANGED fi
                        ELSE fi' = fi + 1 /\ UNCHANGED <<presult, ppc>>
    /\ UNCHANGED <<attempt, rawRows, powerBI, sleeps, outcomes, locCalls, calls, waitCalls,
                   parseCalls, returned, waiterVars, tree, frames, fileVars, pureVars>>

\* the loop ran out of frames: return []
ParserEnd ==
    /\ pc = "parse" /\ ppc = "loop"
    /\ fi > Len(frames)
    /\ presult' = <<>> /\ ppc' = "ret"
    /\ UNCHANGED <<mainVars, waiterVars, tree, frames, fi, visited, shots, aborts,
                   failed, yields, fileVars, pureVars>>

\* rawRows = (the parser's result); if (rawRows.length) break;
\* if (attempt < RETRIES) await sleep(1500 * attempt);  attempt++
AfterParse ==
    /\ pc = "parse" /\ ppc = "ret"
    /\ rawRows' = presult
    /\ returned' = Append(returned, presult)
    /\ IF Len(presult) # 0
       THEN /\ pc' = "save"
            /\ outcomes' = Append(outcomes, "ROWS")
            /\ UNCHANGED <<attempt, sleeps>>
       ELSE /\ pc' = "loop"
            /\ outcomes' = Append(outcomes, "EMPTY")
            /\ sleeps' = IF attempt < RETRIES THEN Backoff(attempt) ELSE sleeps
            /\ attempt' = attempt + 1
    /\ tree' = TreeRootOnly /\ frames' = <<>> /\ fi' = 0 /\ visited' = <<>>
    /\ shots' = <<>> /\ aborts' = {} /\ failed' = {} /\ yields' = <<>>
    /\ ppc' = "idle" /\ presult' = <<>>
    /\ UNCHANGED <<powerBI, err, exitCode, locCalls, calls, waitCalls, parseCalls,
                   waiterVars, fileVars, pureVars>>

\* what the engine's own date parser may make of a string that is neither
\* three numbers nor an ISO year: an invalid date, or some date
EngineDates == {NullV, <<"2", "0", "0", "1", "-", "0", "1", "-", "0", "1">>}

\* const notices = dedupeByIdHash(normalizeRows(rawRows || []));
\* fs.writeFileSync(path.join(OUT_DIR, "notices.json"), JSON.stringify(notices))
\* (lastSeenAt, the time of the run, is not part of the records here)
WritePrimary ==
    /\ pc = "save"
    /\ \E engine \in EngineDates :
          notices' = dedupeByIdHash(normalizeRows(rawRows, engine))
    /\ primaryData' = notices'
    /\ primary' = primary + 1
    /\ pc' = "snapshot"
    /\ UNCHANGED <<attempt, rawRows, powerBI, err, exitCode, sleeps, outcomes,
                   locCalls, calls, waitCalls, parseCalls, returned, waiterVars, parserVars,
                   snapshot, okLogged, snapshotData, pureVars>>

\* fs.writeFileSync(path.join(OUT_DIR, `notices-${today}.json`),
\* JSON.stringify(notices))
WriteSnapshot ==
    /\ pc = "snapshot"
    /\ snapshotData' = notices
    /\ snapshot' = snapshot + 1
    /\ pc' = "log"
    /\ UNCHANGED <<attempt, rawRows, powerBI, err, exitCode, sleeps, outcomes,
                   locCalls, calls, waitCalls, parseCalls, returned, waiterVars, parserVars,
                   primary, okLogged, notices, primaryData, pureVars>>

\* console.log(`OK: ...`); await browser.close(); the process ends with status 0
Finish ==
    /\ pc = "log"
    /\ okLogged' = TRUE
    /\ exitCode' = 0
    /\ pc' = "done"
    /\ UNCHANGED <<attempt, rawRows, powerBI, err, sleeps, outcomes, locCalls, calls,
                   waitCalls, parseCalls, returned, waiterVars, parserVars, primary,
                   snapshot, notices, primaryData, snapshotData, pureVars>>

(***************************************************************************)
(* The deduplicator on its own: dedupeByIdHash applied to an input sequence *)
(* and then to its own output.                                              *)
(***************************************************************************)
\* longest input sequence of the deduplicator run
MaxLen == 3

\* ids as normalizeRows builds them: "IDB:" and a slug without ":"
IdOf(slug) == <<"I", "D", "B", ":">> \o slug
DedupIds == {IdOf(<<"a">>), IdOf(<<"a", "b">>)}

\* hashes: hex digests, all of one length
DedupHashes == {<<"b">>, <<"c">>}

\* tag stands for the fields that are part of neither id nor hash
DedupRecords == [id : DedupIds, hash : DedupHashes, tag : {1, 2}]

DedupInputs == UNION {[1..n -> DedupRecords] : n \in 0..MaxLen}

InitDedupe ==
    /\ InitMain
    /\ arr \in DedupInputs
    /\ out = <<>> /\ out2 = <<>> /\ dstep = 0
    /\ InitFun

\* const notices = dedupeByIdHash(arr)
DedupeOnce ==
    /\ dstep = 0
    /\ out' = dedupeByIdHash(arr)
    /\ dstep' = 1
    /\ UNCHANGED <<mainVars, waiterVars, parserVars, fileVars, arr, out2, funVars>>

\* dedupeByIdHash(notices)
DedupeTwice ==
    /\ dstep = 1
    /\ out2' = dedupeByIdHash(out)
    /\ dstep' = 2
    /\ UNCHANGED <<mainVars, waiterVars, parserVars, fileVars, arr, out, funVars>>

NextDedupe ==
    \/ DedupeOnce
    \/ DedupeTwice

SpecDedupe == InitDedupe /\ [][NextDedupe]_vars

(***************************************************************************)
(* The normalizer on its own: normalizeRows applied to a sequence of rows   *)
(* as the parser makes them, objects from header labels to cell texts.      *)
(***************************************************************************)
\* longest input sequence of the normalizer run
MaxRows == 2

\* the function f extended with key k bound to value v
WithKey(f, k, v) == [x \in DOMAIN f \cup {k} |-> IF x = k THEN v ELSE f[x]]

\* the object with no key
EmptyRow == [x \in {} |-> <<>>]

\* the rows with, for each label of ks in turn, either no such key or one of
\* the cell texts opts[label]
RECURSIVE RowsOver(_, _)
RowsOver(ks, opts) ==
    IF ks = <<>> THEN {EmptyRow}
    ELSE LET rest == RowsOver(Tail(ks), opts)
         IN rest \cup {WithKey(f, Head(ks), v) : f \in rest, v \in opts[Head(ks)]}

TextX == <<"x">>
TextXY == <<"x", "|", "y">>
TextZ == <<"z">>
TextYZ == <<"y", "|", "z">>
TextNA == <<"N", "/", "A">>
TextDate == <<"1", "5", "/", "0", "3", "/", "2", "0", "2", "4">>
TextLink == <<"h", "t", "t", "p", "s", ":", "/", "/", "h", ".", "o", "r", "g", "/", "p">>

NormKeys == <<KeyNoticeTitle, KeyCountry, KeyURL, KeyDueDate, KeyBudget>>

\* cell texts per label: titles and country names with and without "|"
NormTexts ==
    [k \in Range(NormKeys) |->
        IF k = KeyNoticeTitle THEN {TextX, TextXY}
        ELSE IF k = KeyCountry THEN {TextZ, TextYZ}
        ELSE IF k = KeyURL THEN {TextLink}
        ELSE IF k = KeyDueDate THEN {TextDate}
        ELSE {TextNA}]

\* the parser's rows: at least one key
NormRows == RowsOver(NormKeys, NormTexts) \ {EmptyRow}

NormInputs == UNION {[1..n -> NormRows] : n \in 1..MaxRows}

InitNormalize ==
    /\ InitMain /\ InitDedup
    /\ fin \in NormInputs
    /\ fres = <<>> /\ fstep = 0

\* normalizeRows(rawRows)
CallNormalize ==
    /\ fstep = 0
    /\ \E engine \in EngineDates : fres' = normalizeRows(fin, engine)
    /\ fstep' = 1
    /\ UNCHANGED <<mainVars, waiterVars, parserVars, fileVars, dedupVars, fin>>

SpecNormalize == InitNormalize /\ [][CallNormalize]_vars

(***************************************************************************)
(* headerPick on its own: a row whose labels are spellings of the title     *)
(* aliases, each bound to "" or to a text of its own.                       *)
(***************************************************************************)
\* a spelling that is neither the alias as written nor all upper or lower case
KeyNoticeTitleMixed == <<"n", "o", "t", "i", "c", "e", " ", "T", "i", "t", "l", "e">>

PickKeys ==
    <<KeyNoticeTitle, toUpperCase(KeyNoticeTitle), toLowerCase(KeyNoticeTitle),
      KeyNoticeTitleMixed, KeyTitle, toLowerCase(KeyTitle)>>

\* the cell texts of the j-th label: "" or v<j>
PickTexts ==
    [k \in Range(PickKeys) |->
        {<<>>, <<"v", DigitChars[CHOOSE j \in 1..Len(PickKeys) : PickKeys[j] = k]>>}]

PickRows == RowsOver(PickKeys, PickTexts)

\* the alias lists: that of the title as normalizeRows passes it, and a part of it
PickAliases == {<<KeyNoticeTitle, KeyTitle>>, <<KeyTitle>>}

InitHeaderPick ==
    /\ InitMain /\ InitDedup
    /\ fin \in [row : PickRows, keys : PickAliases]
    /\ fres = <<>> /\ fstep = 0

\* headerPick(row, ...keys)
CallHeaderPick ==
    /\ fstep = 0
    /\ fres' = headerPick(fin.row, fin.keys)
    /\ fstep' = 1
    /\ UNCHANGED <<mainVars, waiterVars, parserVars, fileVars, dedupVars, fin>>

SpecHeaderPick == InitHeaderPick /\ [][CallHeaderPick]_vars

(***************************************************************************)
(* The pipeline on its own: parseAccessibleTable on one surface of a frame  *)
(* without children, then normalizeRows, then dedupeByIdHash.               *)
(***************************************************************************)
\* most body rows of a surface of the pipeline run
MaxPipeRows == 2

PipeHdr == <<KeyNoticeTitle, KeyCountry, KeyDueDate>>

RowBridge ==
    <<<<"B", "r", "i", "d", "g", "e", " ", "R", "e", "h", "a", "b", "i", "l", "i", "t", "a", "t", "i", "o", "n">>,
      <<"P", "e", "r", "u">>, <<"1", "5", "/", "0", "3", "/", "2", "0", "2", "4">>>>
RowRoad == <<<<"R", "u", "r", "a", "l", " ", "R", "o", "a", "d">>, <<"P", "e", "r", "u">>, <<"2", "0", "2", "4", "/", "0", "3", "/", "1", "5">>>>
RowBlank == <<<<>>, <<>>, <<>>>>

PipeRowOptions == {RowBridge, RowRoad, RowBlank}

\* the three column headers, with or without a first row element that holds
\* them (it has no cell or gridcell element), then the body rows
PipeSurfaces ==
    {[hdr |-> PipeHdr, rows |-> lead \o body] :
        lead \in {<<>>, <<<<>>>>},
        body \in UNION {[1..n -> PipeRowOptions] : n \in 0..MaxPipeRows}}

PipeFaults == {{}, {Op("cellText", 2, 1)}}

SurfBridge == [hdr |-> PipeHdr, rows |-> <<<<>>, RowBridge>>]

InitPipeline ==
    /\ InitMain /\ InitDedup
    /\ fin \in [surf : PipeSurfaces, F : PipeFaults]
    /\ fres = <<>> /\ fstep = 0

\* rawRows = await parseAccessibleTable(powerBI), frames = [rootFrame]
PipeParse ==
    /\ fstep = 0
    /\ fres' = [raw |-> VisitFrame(fin.surf, fin.F).recs, norm |-> <<>>, out |-> <<>>]
    /\ fstep' = 1
    /\ UNCHANGED <<mainVars, waiterVars, parserVars, fileVars, dedupVars, fin>>

\* normalizeRows(rawRows || [])
PipeNormalize ==
    /\ fstep = 1
    /\ \E engine \in EngineDates :
          fres' = [fres EXCEPT !.norm = normalizeRows(fres.raw, engine)]
    /\ fstep' = 2
    /\ UNCHANGED <<mainVars, waiterVars, parserVars, fileVars, dedupVars, fin>>

\* const notices = dedupeByIdHash(...)
PipeDedupe ==
    /\ fstep = 2
    /\ fres' = [fres EXCEPT !.out = dedupeByIdHash(fres.norm)]
    /\ fstep' = 3
    /\ UNCHANGED <<mainVars, waiterVars, parserVars, fileVars, dedupVars, fin>>

NextPipeline ==
    \/ PipeParse
    \/ PipeNormalize
    \/ PipeDedupe

SpecPipeline == InitPipeline /\ [][NextPipeline]_vars

(***************************************************************************)
(* toISO on its own: texts of three numbers in the spellings that the code  *)
(* takes apart, and texts that are not three numbers.                       *)
(***************************************************************************)
FirstNumbers == {1, 12, 13, 31, 1900, 1901, 2024, 2100, 2101}
SecondNumbers == {1, 2, 12, 13, 31}
ThirdNumbers == {1, 29, 31, 2023, 2024}
Separators == {"/", "-", ".", " "}

\* a, b and c written with at least w digits each and sep between them
DateText(a, b, c, sep, w) ==
    Digits(a, w) \o <<sep>> \o Digits(b, w) \o <<sep>> \o Digits(c, w)

\* kind "three": raw is the text of the numbers nums; kind "none": raw is
\* null, empty, blank or words; kind "other": raw has fewer than three numbers
ISOInputs ==
    {[kind |-> "three", raw |-> DateText(a, b, c, sep, w), nums |-> <<a, b, c>>] :
        a \in FirstNumbers, b \in SecondNumbers, c \in ThirdNumbers,
        sep \in Separators, w \in {1, 2}}
    \cup {[kind |-> "none", raw |-> r, nums |-> <<>>] :
             r \in {NullV, <<>>, <<" ">>, <<"n", "o", "t", " ", "a", " ", "d", "a", "t", "e">>}}
    \cup {[kind |-> "other", raw |-> r, nums |-> <<>>] :
             r \in {<<"2", "0", "2", "4">>, <<"3", "/", "2", "0", "2", "4">>}}

InitToISO ==
    /\ InitMain /\ InitDedup
    /\ fin \in ISOInputs
    /\ fres = <<>> /\ fstep = 0

\* toISO(raw)
CallToISO ==
    /\ fstep = 0
    /\ \E engine \in EngineDates : fres' = toISO(fin.raw, engine)
    /\ fstep' = 1
    /\ UNCHANGED <<mainVars, waiterVars, parserVars, fileVars, dedupVars, fin>>

SpecToISO == InitToISO /\ [][CallToISO]_vars

(***************************************************************************)
(* toNum on its own: null and short texts of digits, dots and other        *)
(* characters.                                                             *)
(***************************************************************************)
\* longest argument text of the toNum run
MaxNumLen == 3

NumChars == {"0", "5", ".", "N", "/"}

NumInputs == {NullV} \cup UNION {[1..n -> NumChars] : n \in 0..MaxNumLen}

InitToNum ==
    /\ InitMain /\ InitDedup
    /\ fin \in NumInputs
    /\ fres = <<>> /\ fstep = 0

\* toNum(v)
CallToNum ==
    /\ fstep = 0
    /\ fres' = toNum(fin)
    /\ fstep' = 1
    /\ UNCHANGED <<mainVars, waiterVars, parserVars, fileVars, dedupVars, fin>>

SpecToNum == InitToNum /\ [][CallToNum]_vars

(***************************************************************************)
(* One candidate frame on its own: the try block of parseAccessibleTable on *)
(* a surface of up to MaxGridRows row elements.                             *)
(***************************************************************************)
\* most row elements of a surface of the parser run
MaxGridRows == 3

GridHdrs ==
    {<<>>, <<<<"T">>>>, <<<<"T">>, <<>>>>, <<<<"T">>, <<"U">>>>, <<<<"T">>, <<"T">>>>}

\* the cells of a row element: none, blank ones, one or two texts
GridRowOptions ==
    {<<>>, <<<<>>>>, <<<<" ">>>>, <<<<"a">>>>, <<<<"a">>, <<>>>>, <<<<>>, <<"b">>>>,
     <<<<" ", "a", " ", " ", "c">>, <<"b">>>>}

GridSurfaces ==
    {[hdr |-> h, rows |-> rs] :
        h \in GridHdrs,
        rs \in UNION {[1..n -> GridRowOptions] : n \in 0..MaxGridRows}}

GridFaults ==
    {{}, {Op("hdrText", 0, 1)}, {Op("cellText", 1, 1)}, {Op("rowQuery", 0, 0)},
     {Op("cellQuery", 2, 0)}, {Op("cellText", 2, 1)}}

InitParse ==
    /\ InitMain /\ InitDedup
    /\ fin \in [surf : GridSurfaces, F : GridFaults]
    /\ fres = <<>> /\ fstep = 0

\* await nudgeRender(fr); try { ... } catch {}
CallVisitFrame ==
    /\ fstep = 0
    /\ fres' = VisitFrame(fin.surf, fin.F)
    /\ fstep' = 1
    /\ UNCHANGED <<mainVars, waiterVars, parserVars, fileVars, dedupVars, fin>>

SpecParse == InitParse /\ [][CallVisitFrame]_vars


(***************************************************************************)
(* The frame locator on its own: getPowerBIFrame on a page of up to        *)
(* MaxFrames attached frames.                                              *)
(***************************************************************************)
\* most frames attached to the page of the locator run
MaxFrames == 3

LocPages ==
    [handle : {"found", "none", "throws"}, content : BOOLEAN,
     frames : UNION {[1..n -> BOOLEAN] : n \in 0..MaxFrames}]

InitLocate ==
    /\ InitMain /\ InitDedup
    /\ fin \in LocPages
    /\ fres = <<>> /\ fstep = 0

\* const powerBI = await getPowerBIFrame(page)
CallLocate ==
    /\ fstep = 0
    /\ fres' = getPowerBIFrame(fin)
    /\ fstep' = 1
    /\ UNCHANGED <<mainVars, waiterVars, parserVars, fileVars, dedupVars, fin>>

SpecLocate == InitLocate /\ [][CallLocate]_vars

Next ==
    \/ Start
    \/ Locate
    \/ LoopHead
    \/ EnvChange
    \/ WaiterTest
    \/ WaiterPoll
    \/ WaiterCount
    \/ WaiterSleep
    \/ AfterWait
    \/ ParserVisit
    \/ ParserEnd
    \/ AfterParse
    \/ WritePrimary
    \/ WriteSnapshot
    \/ Finish

Spec == Init /\ [][Next]_vars

\* the steps of the program itself, as opposed to those of the page, but for
\* WritePrimary, which pc = "save" is all the guard of
MainStep ==
    \/ Start \/ Locate \/ LoopHead
    \/ WaiterTest \/ WaiterPoll \/ WaiterCount \/ WaiterSleep \/ AfterWait
    \/ ParserVisit \/ ParserEnd \/ AfterParse
    \/ WriteSnapshot \/ Finish

(***************************************************************************)
(* Orchestrator properties                                                 *)
(***************************************************************************)
AfterLoop == pc \in {"save", "snapshot", "log", "done"}

NoRowsIn(os) == \A k \in 1..Len(os) : os[k] # "ROWS"

\* number of attempts logged that reached the parser
ParsedAttempts == Cardinality({k \in 1..Len(outcomes) : outcomes[k] # "TIMED_OUT"})

\* C1: once the RETRIES attempts are used up and none produced a row, the run
\* ends in a fatal error: it never goes on to write the output files and
\* report OK with an empty row set.
C1_NoDataIsFatal ==
    /\ (Len(outcomes) = RETRIES /\ NoRowsIn(outcomes)) => ~AfterLoop
    /\ (primary > 0 \/ snapshot > 0 \/ okLogged) => rawRows # <<>>

\* C2: when getPowerBIFrame returns null the run ends in the "iframe not found"
\* error after exactly one locator call, with no waiter call, no parser call,
\* no backoff sleep and no output file.
C2_EmbedNotFoundIsFatal ==
    (locCalls > 0 /\ powerBI = NullFrame) =>
        /\ pc = "fatal" /\ err = "Power BI iframe not found" /\ exitCode = 1
        /\ locCalls = 1 /\ waitCalls = 0 /\ parseCalls = 0
        /\ sleeps = <<>> /\ primary = 0 /\ snapshot = 0 /\ ~okLogged

C2_Witness == locCalls = 1 /\ powerBI = NullFrame /\ pc = "fatal"

\* C3: a TIMED_OUT on attempt RETRIES ends the run in the "grid not visible"
\* error, the parser not being called on that attempt and nothing being
\* written; a TIMED_OUT on an earlier attempt k is followed by a sleep of
\* 1500 * k and by attempt k + 1, with no error raised.  The parser has been
\* called exactly once per attempt that did not time out.
C3_TimedOut ==
    /\ parseCalls = ParsedAttempts + (IF pc = "parse" THEN 1 ELSE 0)
    /\ \A k \in 1..Len(outcomes) :
          outcomes[k] = "TIMED_OUT" =>
             IF k = RETRIES
             THEN /\ pc = "fatal" /\ exitCode = 1
                  /\ err = "Power BI grid not visible after waiting"
                  /\ primary = 0 /\ snapshot = 0 /\ ~okLogged
                  /\ Len(sleeps) = RETRIES - 1
             ELSE /\ Len(sleeps) >= k /\ sleeps[k] = BackoffBaseMs * k
                  /\ attempt > k
                  /\ k = Len(outcomes) =>
                        /\ pc \in {"loop", "wait", "parse"}
                        /\ attempt = k + 1
                        /\ err = None /\ exitCode = -1

C3_Witness ==
    /\ Len(outcomes) = RETRIES
    /\ outcomes[1] = "TIMED_OUT" /\ outcomes[RETRIES] = "TIMED_OUT"
    /\ pc = "fatal"

\* C4: when the grid is READY on every attempt and the parser returns no row
\* on attempts 1..N-1 and rows on attempt N (N <= RETRIES), the loop ends
\* without an error, rawRows is what the parser returned on attempt N, and
\* exactly N-1 sleeps were made, the k-th of 1500 * k ms (so strictly
\* increasing), none after the successful attempt; the run then ends with
\* status 0.
EmptyThenRows(os) ==
    /\ Len(os) >= 1
    /\ os[Len(os)] = "ROWS"
    /\ \A k \in 1..(Len(os) - 1) : os[k] = "EMPTY"

C4_RetryThenSuccess ==
    EmptyThenRows(outcomes) =>
        LET N == Len(outcomes)
        IN /\ AfterLoop /\ err = None /\ exitCode \in {-1, 0}
           /\ pc = "done" => exitCode = 0
           /\ Len(returned) = N /\ returned[N] # <<>> /\ rawRows = returned[N]
           /\ \A k \in 1..(N - 1) : returned[k] = <<>>
           /\ Len(sleeps) = N - 1
           /\ \A k \in 1..(N - 1) : sleeps[k] = k * BackoffBaseMs
           /\ \A k \in 1..(N - 2) : sleeps[k] < sleeps[k + 1]

C4_Witness ==
    /\ outcomes = <<"EMPTY", "EMPTY", "ROWS">>
    /\ pc = "done"
    /\ sleeps = <<1500, 3000>>

(***************************************************************************)
(* Readiness waiter properties                                             *)
(***************************************************************************)
WaiterReturned == pc = "wait" /\ wpc = "ret"

\* C5 as stated: (a) a count that is nonzero at some instant inside the
\* timeout window makes the waiter return READY, before the timeout has
\* elapsed; (b) otherwise it returns TIMED_OUT, at elapsed >= timeoutMs.
C5_AsStated ==
    WaiterReturned =>
        /\ seen => (ready = "READY" /\ elapsed < GRID_WAIT_TIMEOUTMS)
        /\ ~ever => (ready = "TIMED_OUT" /\ elapsed >= GRID_WAIT_TIMEOUTMS)

\* C5 (amended): (a) the waiter returns READY exactly when a poll that began
\* inside the timeout window (elapsed < timeoutMs at the loop test) completes
\* without an exception and with a nonzero total; it returns at the end of
\* that poll, one poll duration after the poll began, and whenever a poll
\* counts a nonzero total the waiter returns READY at once; (b) it returns
\* TIMED_OUT only at an instant where elapsed >= timeoutMs, and that is what
\* it returns when the count is never nonzero.
C5_Waiter ==
    /\ WaiterReturned =>
          /\ ready \in {"READY", "TIMED_OUT"}
          /\ ready = "READY" =>
                /\ 0 <= pollAt /\ pollAt < GRID_WAIT_TIMEOUTMS
                /\ (elapsed - pollAt) \in PollDurations
                /\ lastPoll = "nonzero" /\ ever
          /\ ready = "TIMED_OUT" =>
                /\ elapsed >= GRID_WAIT_TIMEOUTMS
                /\ lastPoll # "nonzero"
          /\ ~ever => ready = "TIMED_OUT"
    /\ lastPoll = "nonzero" => (WaiterReturned /\ ready = "READY")
    /\ (pc = "wait" /\ wpc # "ret") => ready = None

\* a poll that began before the timeout returned READY after it had elapsed
C5_Witness ==
    /\ WaiterReturned /\ ready = "READY"
    /\ pollAt < GRID_WAIT_TIMEOUTMS /\ elapsed >= GRID_WAIT_TIMEOUTMS

\* C6: an exception of a count query never leaves waitForPowerBiGrid and never
\* ends the waiting: the poll that threw ends like a poll that counted zero
\* (no return value, the 500 ms wait comes next, then the loop test again),
\* and a later poll inside the window that counts a nonzero total still
\* returns READY.
PollStep == wpc = "count" /\ wpc' # "count"

C6_Step ==
    /\ (PollStep /\ lastPoll' = "throw") =>
          (pc' = "wait" /\ wpc' = "sleep" /\ ready' = None /\ err' = None)
    /\ (PollStep /\ lastPoll' = "zero") =>
          (pc' = "wait" /\ wpc' = "sleep" /\ ready' = None)
    /\ (wpc = "sleep" /\ wpc' # "sleep") =>
          (wpc' = "test" /\ elapsed' = elapsed + PollIntervalMs /\ pc' = "wait")
    /\ (wpc = "test" /\ wpc' # "test" /\ elapsed < GRID_WAIT_TIMEOUTMS) =>
          (wpc' = "poll" /\ ready' = None)
    /\ (PollStep /\ threw /\ lastPoll' = "nonzero") => ready' = "READY"

C6_ExceptionsSwallowed ==
    /\ [](err # "count query failed")
    /\ [][C6_Step]_vars

C6_Witness == threw /\ WaiterReturned /\ ready = "READY"

(***************************************************************************)
(* Parser properties                                                       *)
(***************************************************************************)
\* the frames at depth 0, 1 and 2 of a tree
Candidates(t) == {n \in DOMAIN t : Len(n) <= 2}

\* root before children before grandchildren; siblings and cousins in
\* document order
Before(a, b) ==
    \/ Len(a) < Len(b)
    \/ /\ Len(a) = Len(b)
       /\ \E i \in 1..Len(a) :
             /\ a[i] < b[i]
             /\ \A j \in 1..(i - 1) : a[j] = b[j]

AllEmpty(ys) == \A j \in 1..Len(ys) : ys[j] = <<>>

\* C7: the candidates are visited in the order root, children, grandchildren
\* and no deeper; nothing is visited after a candidate that yielded rows; the
\* parser returns the rows of that candidate, and returns the empty sequence
\* exactly when every candidate was visited and yielded no row.
C7_FirstYieldingCandidate ==
    pc = "parse" =>
        /\ Len(yields) = Len(visited)
        /\ \A j \in 1..Len(visited) :
              /\ visited[j] \in Candidates(tree)
              /\ Cardinality({n \in Candidates(tree) : Before(n, visited[j])}) = j - 1
        /\ \A j \in 1..(Len(yields) - 1) : yields[j] = <<>>
        /\ ppc = "ret" =>
              /\ presult = <<>> <=>
                    (AllEmpty(yields) /\ Len(visited) = Cardinality(Candidates(tree)))
              /\ presult # <<>> => presult = yields[Len(yields)]

\* rows returned from the first grandchild, the second one never visited
C7_Witness ==
    /\ pc = "parse" /\ ppc = "ret" /\ tree = TreeWide
    /\ presult # <<>> /\ Len(visited) = 4

\* C8: no failure of an operation on a candidate leaves parseAccessibleTable
\* as an exception.  A candidate in which an operation failed either still
\* yields rows, which the parser returns, or yields none, and then the parser
\* is on the next candidate (or past the last one); the call ends with rows
\* or with the empty sequence after the last candidate.
C8_ParserNeverThrows ==
    /\ err # "parser failed"
    /\ failed # {} => pc = "parse"
    /\ pc = "parse" =>
          /\ ppc \in {"loop", "ret"}
          /\ \A j \in failed :
                /\ j <= Len(yields)
                /\ yields[j] = <<>> => fi > j
                /\ yields[j] # <<>> => (ppc = "ret" /\ presult = yields[j])
          /\ (ppc = "ret" /\ presult = <<>>) => Len(visited) = Len(frames)

\* the first candidate's header query threw, a later candidate gave the rows
C8_Witness ==
    /\ pc = "parse" /\ ppc = "ret" /\ presult # <<>>
    /\ 1 \in aborts /\ Len(visited) >= 2

\* C9: every candidate that yielded no row got exactly one screenshot attempt,
\* every candidate that yielded rows got none.
C9_OneCapturePerFailedCandidate ==
    pc = "parse" =>
        \A j \in 1..Len(yields) :
            Cardinality({k \in 1..Len(shots) : shots[k] = j})
                = (IF yields[j] = <<>> THEN 1 ELSE 0)

(***************************************************************************)
(* Deduplicator properties                                                 *)
(***************************************************************************)
SamePair(a, b) == a.id = b.id /\ a.hash = b.hash

\* the positions of arr that hold the first occurrence of their (id, hash)
FirstPositions(a) == {i \in 1..Len(a) : \A j \in 1..(i - 1) : ~SamePair(a[j], a[i])}

\* C10: the output holds exactly the first occurrence of each (id, hash) pair
\* of the input, in input order, and the deduplicator maps its own output to
\* itself.
C10_Dedupe ==
    /\ dstep >= 1 =>
          LET P == FirstPositions(arr)
          IN /\ Len(out) = Cardinality(P)
             /\ \A i \in P : out[Cardinality({j \in P : j <= i})] = arr[i]
             /\ Len(out) = Cardinality({<<arr[i].id, arr[i].hash>> : i \in 1..Len(arr)})
    /\ dstep = 2 => out2 = out

\* two records with the same (id, hash) around one that differs in its hash
C10_Witness ==
    /\ dstep = 2 /\ Len(arr) = 3 /\ Len(out) = 2
    /\ SamePair(arr[1], arr[3]) /\ arr[1] # arr[3]
    /\ arr[2].id = arr[1].id /\ arr[2].hash # arr[1].hash
    /\ out = <<arr[1], arr[2]>>

(***************************************************************************)
(* Normalizer properties                                                   *)
(***************************************************************************)
\* the row supplies a value for one of the aliases
Supplies(row, keys) == headerPick(row, keys) # NullV

SuppliesTitleOrURL(row) ==
    \/ Supplies(row, <<KeyNoticeTitle, KeyTitle>>)
    \/ Supplies(row, <<KeyURL, KeyLink, KeyNoticeURL>>)

\* C11: the output of normalizeRows holds no record for a row in which no
\* title alias and no URL alias resolves to a non-empty value: the records
\* are as many as the rows that supply a title or a URL.
C11_UnusableRowsDropped ==
    fstep = 1 =>
        Len(fres) = Cardinality({i \in 1..Len(fin) : SuppliesTitleOrURL(fin[i])})

\* the four fields that the hash is computed from
Salient(x) == <<x.title, x.countryName, x.deadline, x.url>>

\* C12: two records of the normalizer's output have the same hash exactly when
\* their title, countryName, deadline and url are equal.
C12_HashIffSalientFields ==
    fstep = 1 =>
        \A i, j \in 1..Len(fres) :
            (fres[i].hash = fres[j].hash) <=> (Salient(fres[i]) = Salient(fres[j]))

(***************************************************************************)
(* Header alias resolution                                                 *)
(***************************************************************************)
\* the keys of the row that equal alias a but for the case of their letters
\* and that hold a non-blank value
KeysFor(row, a) ==
    {k \in DOMAIN row : toLowerCase(k) = toLowerCase(a) /\ Trim(row[k]) # <<>>}

\* C13: headerPick returns the value of a key that equals, but for case, the
\* first alias of the list for which the row has such a key with a non-blank
\* value, whatever the spelling of the key; it returns null only when no
\* alias has such a key.
C13_CaseInsensitivePick ==
    fstep = 1 =>
        LET hits == {i \in 1..Len(fin.keys) : KeysFor(fin.row, fin.keys[i]) # {}}
            first == CHOOSE i \in hits : \A j \in hits : i <= j
        IN IF hits = {} THEN fres = NullV
           ELSE fres \in {fin.row[k] : k \in KeysFor(fin.row, fin.keys[first])}

(***************************************************************************)
(* End to end                                                              *)
(***************************************************************************)
\* C14: from a surface with the column headers "Notice Title", "Country",
\* "Due Date" and the one body row "Bridge Rehabilitation", "Peru",
\* "15/03/2024", parse, normalize and dedupe yield exactly one record, with
\* title "Bridge Rehabilitation", country "PE", deadline "2024-03-15" and
\* sector ["Transport"].
C14_EndToEnd ==
    (fstep = 3 /\ fin.surf = SurfBridge /\ fin.F = {}) =>
        /\ Len(fres.out) = 1
        /\ fres.out[1].title = RowBridge[1]
        /\ fres.out[1].country = <<"P", "E">>
        /\ fres.out[1].deadline = <<"2", "0", "2", "4", "-", "0", "3", "-", "1", "5">>
        /\ fres.out[1].sector = <<SectorRules[2].sector>>

(***************************************************************************)
(* Dates and numbers                                                       *)
(***************************************************************************)
IsLeap(y) == y % 4 = 0 /\ (y % 100 # 0 \/ y % 400 = 0)

DaysInMonth(y, m) ==
    IF m = 2 THEN (IF IsLeap(y) THEN 29 ELSE 28)
    ELSE IF m \in {4, 6, 9, 11} THEN 30 ELSE 31

\* <<y, m, d>> is a date of the calendar with a year of four digits
IsCalendarDate(ymd) ==
    /\ ymd[1] >= 1000 /\ ymd[1] <= 9999
    /\ ymd[2] >= 1 /\ ymd[2] <= 12
    /\ ymd[3] >= 1 /\ ymd[3] <= DaysInMonth(ymd[1], ymd[2])

\* the reading <<y, m, d>> that the policy gives the numbers a, b, c
PolicyReading(a, b, c) ==
    IF a >= 1900 /\ a <= 2100 THEN <<a, b, c>>
    ELSE IF a > 12 THEN <<c, b, a>>
    ELSE IF b > 12 THEN <<c, a, b>>
    ELSE <<c, b, a>>

\* C15: for a text of three numbers a, b, c, toISO reads year a, month b,
\* day c when a is in 1900..2100 (both included), else day a, month b, year c
\* when a > 12, else month a, day b, year c when b > 12, else day a, month b,
\* year c, and returns that date as YYYY-MM-DD when it is a date of the
\* calendar; null, empty and blank input and words return null.
C15_DateOrderPolicy ==
    fstep = 1 =>
        /\ fin.kind = "none" => fres = NullV
        /\ fin.kind = "three" =>
              LET r == PolicyReading(fin.nums[1], fin.nums[2], fin.nums[3])
              IN IsCalendarDate(r) =>
                    fres = Digits(r[1], 4) \o <<"-">> \o Digits(r[2], 2)
                               \o <<"-">> \o Digits(r[3], 2)

\* C16: toNum returns null for null and for every text that is not a number,
\* in particular for every text with no digit in it; it never returns a
\* number such as 0 for such a text.
C16_UnparseableIsNull ==
    fstep = 1 => ((fin = NullV \/ ~HasDigit(fin)) => fres = NullV)

(***************************************************************************)
(* Output files and exit status                                            *)
(***************************************************************************)
Terminal == pc \in {"done", "fatal"}

\* the retry loop has ended without an error: by a break on rows, or with the
\* attempts used up
LoopEndedCleanly ==
    /\ err = None
    /\ outcomes # <<>>
    /\ \/ outcomes[Len(outcomes)] = "ROWS"
       \/ Len(outcomes) = RETRIES /\ outcomes[RETRIES] = "EMPTY"

C18_WaiterThenParser ==
    /\ \A i \in 1..Len(calls) :
          /\ calls[i][1] = "parse" =>
                /\ i > 2
                /\ calls[i - 1] = <<"READY", calls[i][2]>>
                /\ calls[i - 2] = <<"wait", calls[i][2]>>
          /\ calls[i][1] = "TIMED_OUT" =>
                \A j \in 1..Len(calls) : calls[j] # <<"parse", calls[i][2]>>
          /\ calls[i][1] \in {"READY", "TIMED_OUT"} =>
                i > 1 /\ calls[i - 1] = <<"wait", calls[i][2]>>
          /\ \A j \in 1..Len(calls) : calls[i] = calls[j] => i = j
    /\ pc = "parse" => calls[Len(calls)] = <<"parse", attempt>>
    /\ waitCalls = Cardinality({i \in 1..Len(calls) : calls[i][1] = "wait"})
    /\ parseCalls = Cardinality({i \in 1..Len(calls) : calls[i][1] = "parse"})

C18_Witness ==
    /\ Len(calls) >= 5
    /\ calls[2] = <<"TIMED_OUT", 1>>
    /\ calls[4] = <<"READY", 2>>
    /\ calls[5] = <<"parse", 2>>

(***************************************************************************)
(* Attempt budget and termination                                          *)
(***************************************************************************)
C19_Budget ==
    /\ waitCalls <= RETRIES /\ parseCalls <= RETRIES
    /\ Len(outcomes) <= RETRIES
    /\ Len(sleeps) <= RETRIES - 1
    /\ Len(sleeps) =
          Cardinality({k \in 1..Len(outcomes) : k < RETRIES /\ outcomes[k] # "ROWS"})
    /\ \A k \in 1..Len(outcomes) :
          outcomes[k] = "ROWS" => (k = Len(outcomes) /\ AfterLoop /\ waitCalls = k)

\* what a step of the program changes and a step of the page does not
progVars ==
    <<mainVars, wpc, elapsed, ready, threw, pollAt, lastPoll, parserVars, fileVars>>

\* the time a waiter call can still take, and the frames a parser call can
\* still visit
WaiterLeft ==
    LET ph == IF wpc = "test" THEN 4 ELSE IF wpc = "poll" THEN 3
              ELSE IF wpc = "count" THEN 2 ELSE IF wpc = "sleep" THEN 1 ELSE 0
    IN 2 * GRID_WAIT_TIMEOUTMS - elapsed + ph

ParserLeft == 2 * (Len(frames) + 1 - fi) + (IF ppc = "loop" THEN 1 ELSE 0)

\* a measure of what is left of the run: the part of main that is left, the
\* position inside the attempt, what is left of the call under way
Measure ==
    <<IF pc \in {"done", "fatal"} THEN 0
      ELSE IF pc = "log" THEN 1
      ELSE IF pc = "snapshot" THEN 2
      ELSE IF pc = "save" THEN 3
      ELSE IF pc = "start" THEN RETRIES + 6
      ELSE RETRIES + 5 - attempt,
      IF pc = "loop" THEN 3 ELSE IF pc = "wait" THEN 2 ELSE IF pc = "parse" THEN 1
      ELSE 0,
      IF pc = "wait" THEN WaiterLeft ELSE IF pc = "parse" THEN ParserLeft ELSE 0>>

\* a comes before b in the lexicographic order of triples
LexLess(a, b) ==
    \/ a[1] < b[1]
    \/ a[1] = b[1] /\ a[2] < b[2]
    \/ a[1] = b[1] /\ a[2] = b[2] /\ a[3] < b[3]

\* C19: every run of the program, its calls returning, reaches the end (done
\* or fatal), having called the waiter at most RETRIES times, the parser at
\* most RETRIES times and slept at most RETRIES - 1 times: once after each
\* attempt but the last that produced no rows, never after attempt RETRIES;
\* the attempt whose parse has rows is the last one.  The run reaches the end
\* because, until then, the program has a step to take and each of its steps
\* lowers Measure, a triple of natural numbers.
C19_BudgetAndTermination ==
    /\ [](/\ C19_Budget
          /\ \A i \in 1..3 : Measure[i] >= 0
          /\ Terminal <=> Measure[1] = 0
          /\ ~Terminal => (pc = "save" \/ ENABLED MainStep))
    /\ [][progVars' # progVars => LexLess(Measure', Measure)]_vars

C19_Witness ==
    /\ pc = "done"
    /\ outcomes = <<"TIMED_OUT", "EMPTY", "ROWS">>
    /\ waitCalls = RETRIES /\ parseCalls = RETRIES - 1 /\ Len(sleeps) = RETRIES - 1

(***************************************************************************)
(* Header row and body rows                                                *)
(***************************************************************************)
\* the text of a cell as the parser keeps it
CellValue(t) == CollapseWs(Trim(t))

\* the row element has a cell, and a cell that is not blank
HasContent(row) == Len(row) >= 1 /\ \E c \in 1..Len(row) : CellValue(row[c]) # <<>>

\* the positions after the first of the row elements with content, in order
ContentRows(rows) ==
    SelectSeq([i \in 1..(Len(rows) - 1) |-> i + 1], LAMBDA r : HasContent(rows[r]))

\* C20: the first row element of a surface never gives a row, whether the
\* headers come from columnheader elements or from the cells of that first
\* row; when no operation fails, the rows returned are, in document order,
\* one for each later row element that has a cell and a non-blank cell; a
\* surface with a single row element gives no row.
C20_HeaderBodySplit ==
    fstep = 1 =>
        LET rows == fin.surf.rows
            qs   == ContentRows(rows)
        IN /\ Len(rows) <= 1 => fres.recs = <<>>
           /\ Len(rows) >= 1 => Len(fres.recs) <= Len(rows) - 1
           /\ fin.F = {} =>
                 /\ Len(fres.recs) = Len(qs)
                 /\ \A k \in 1..Len(qs) :
                       fres.recs[k] =
                          RowObject(Headers(fin.surf, {}),
                                    [c \in 1..Len(rows[qs[k]]) |->
                                        CellValue(rows[qs[k]][c])])

C20_Witness ==
    /\ fstep = 1 /\ fin.F = {}
    /\ fin.surf.hdr = <<>>
    /\ Len(fin.surf.rows) = 3
    /\ HasContent(fin.surf.rows[1])
    /\ ~HasContent(fin.surf.rows[2])
    /\ Len(fres.recs) = 1


(***************************************************************************)
(* What a returned row carries                                             *)
(***************************************************************************)
\* the object has a key, and a value that is not ""
CarriesData(obj) == DOMAIN obj # {} /\ \E k \in DOMAIN obj : obj[k] # <<>>

\* C21: every row returned for a candidate has at least one key and at least
\* one non-empty value, whatever the number of headers and of cells.
C21_RowsCarryData ==
    fstep = 1 => \A i \in 1..Len(fres.recs) : CarriesData(fres.recs[i])


(***************************************************************************)
(* The frame locator                                                       *)
(***************************************************************************)
\* the element query found an element and its content frame resolves
Resolves(page) == page.handle = "found" /\ page.content

\* the positions in page.frames() of the frames whose URL has the pattern
Hits(page) == {i \in 1..Len(page.frames) : page.frames[i]}

====
